---- MODULE Spec2Model ----
(***************************************************************************)
(* Model of generate_toml.py: the one-shot generator that builds the list  *)
(* of key records of a keyboard layout and writes it to keys.toml.         *)
(*                                                                         *)
(* Numbers.  The script computes with Python floats.  Every value it forms *)
(* is a multiple of 0.5 far below 2^53, so the float arithmetic is exact.  *)
(* The model keeps the values as integers in TENTHS of a layout unit:      *)
(* 50.0 is 500, 5.0 is 50, 62.5 is 625, 815.0 is 8150.  A factor f * u     *)
(* with f = 1.25, 1.5, ... is (100 f * u) \div 100, which is exact here.   *)
(*                                                                         *)
(* Steps.  The script is straight-line code; pc names the statement it is  *)
(* at.  One add_key call is one step, so every prefix of the key list is a *)
(* reachable state.  The write phase is open / write chunks / close, each  *)
(* of which the operating system may fail.                                 *)
(***************************************************************************)
EXTENDS Integers, Sequences, FiniteSets

VARIABLES
    keys,        \* the module-level list keys (line 3)
    current_x,   \* the running horizontal offset of the row being built
    i,           \* position in the loop (or call sequence) being executed
    pc,          \* the statement group the script is at
    group,       \* history: group[k] is the statement group that appended keys[k]
    file,        \* keys.toml on disk: [kind, data]
    file0,       \* history: keys.toml as it was before the run
    stdout,      \* what print() has written
    exit_status  \* -1 while running, 0 on normal end, 1 on an uncaught exception

vars == <<keys, current_x, i, pc, group, file, file0, stdout, exit_status>>

----------------------------------------------------------------------------
\* Layout constants (lines 5-26), in tenths.

u == 500
s == 50

w_1u == u
w_1_25u == (125 * u) \div 100
w_1_5u == (15 * u) \div 10
w_1_75u == (175 * u) \div 100
\* Variant: Backspace given the 2.25U width.
w_2u_wide == (225 * u) \div 100
w_2u == (20 * u) \div 10
w_2_25u == (225 * u) \div 100
w_2_75u == (275 * u) \div 100
w_6_25u == (625 * u) \div 100
h_1u == u

top_fn_row == 0
top_num_row == top_fn_row + h_1u + s
\* Variant: the row spacing left out of one baseline.
top_qwerty_row_no_spacing == top_num_row + h_1u
top_qwerty_row == top_num_row + h_1u + s
top_asdf_row == top_qwerty_row + h_1u + s
top_zxcv_row == top_asdf_row + h_1u + s
\* Variant: the key height left out of one baseline.
top_bottom_row_no_height == top_zxcv_row + s
top_bottom_row == top_zxcv_row + h_1u + s

\* The literal 25.0 of lines 42, 49 and 118.
extra_gap == 250

----------------------------------------------------------------------------
\* add_key (lines 29-37): the list with one record appended.

add_key(name, left, top, width, height, keycode) ==
    Append(keys, [name |-> name, left |-> left, top |-> top,
                  width |-> width, height |-> height, keycode |-> keycode])

\* (name, keycode, width) triple of a row table.
K(name, keycode, width) == [name |-> name, keycode |-> keycode, width |-> width]

----------------------------------------------------------------------------
\* Row tables.

\* Variant: the last function key left out.
f_keys_short == <<"F1", "F2", "F3", "F4", "F5", "F6", "F7", "F8", "F9", "F10", "F11">>

f_keys == <<"F1", "F2", "F3", "F4", "F5", "F6", "F7", "F8", "F9", "F10", "F11", "F12">>

\* str.lower() on the names of f_keys (line 46): "F" becomes "f", digits stay.
lower(name) ==
    CASE name = "F1" -> "f1" [] name = "F2" -> "f2" [] name = "F3" -> "f3"
      [] name = "F4" -> "f4" [] name = "F5" -> "f5" [] name = "F6" -> "f6"
      [] name = "F7" -> "f7" [] name = "F8" -> "f8" [] name = "F9" -> "f9"
      [] name = "F10" -> "f10" [] name = "F11" -> "f11" [] name = "F12" -> "f12"
      [] OTHER -> name

\* Variant: the gap indices taken one too far (as if Esc were part of f_keys).
FnGapAfter_shifted(idx) == idx = 4 \/ idx = 8

\* "if i == 3 or i == 7" (line 48), i the zero-based index in f_keys.
FnGapAfter(idx) == idx = 3 \/ idx = 7

\* The name of the first key of the number row is the one character U+0060
\* (grave accent).  SANY's lexer cannot hold that character in a string, so the
\* model writes the name as the text below, which differs from every other name.
grave_name == "U+0060"

num_row_keys == <<
    K(grave_name, "grave", w_1u), K("1", "1", w_1u), K("2", "2", w_1u), K("3", "3", w_1u),
    K("4", "4", w_1u), K("5", "5", w_1u), K("6", "6", w_1u), K("7", "7", w_1u),
    K("8", "8", w_1u), K("9", "9", w_1u), K("0", "0", w_1u), K("-", "minus", w_1u),
    K("=", "equal", w_1u), K("Backspace", "backspace", w_2u) >>

qwerty_row_keys == <<
    K("Tab", "tab", w_1_5u), K("Q", "q", w_1u), K("W", "w", w_1u), K("E", "e", w_1u),
    K("R", "r", w_1u), K("T", "t", w_1u), K("Y", "y", w_1u), K("U", "u", w_1u),
    K("I", "i", w_1u), K("O", "o", w_1u), K("P", "p", w_1u), K("[", "leftbrace", w_1u),
    K("]", "rightbrace", w_1u), K("\\", "backslash", w_1_5u) >>

asdf_row_keys == <<
    K("Caps Lock", "capslock", w_1_75u), K("A", "a", w_1u), K("S", "s", w_1u),
    K("D", "d", w_1u), K("F", "f", w_1u), K("G", "g", w_1u), K("H", "h", w_1u),
    K("J", "j", w_1u), K("K", "k", w_1u), K("L", "l", w_1u), K(";", "semicolon", w_1u),
    K("'", "apostrophe", w_1u), K("Enter", "enter", w_2_25u) >>

zxcv_row_keys == <<
    K("Shift", "leftshift", w_2_25u), K("Z", "z", w_1u), K("X", "x", w_1u),
    K("C", "c", w_1u), K("V", "v", w_1u), K("B", "b", w_1u), K("N", "n", w_1u),
    K("M", "m", w_1u), K(",", "comma", w_1u), K(".", "dot", w_1u),
    K("/", "slash", w_1u), K("Shift", "rightshift", w_2_75u) >>

\* Variant: the right Alt entry copied from the left one without renaming its keycode.
bottom_row_keys_dup == <<
    K("Ctrl", "leftctrl", w_1_25u), K("Super", "leftmeta", w_1_25u),
    K("Alt", "leftalt", w_1_25u), K("Space", "space", w_6_25u),
    K("Alt", "leftalt", w_1_25u), K("Super", "rightmeta", w_1_25u),
    K("Menu", "menu", w_1_25u), K("Ctrl", "rightctrl", w_1_25u) >>

bottom_row_keys == <<
    K("Ctrl", "leftctrl", w_1_25u), K("Super", "leftmeta", w_1_25u),
    K("Alt", "leftalt", w_1_25u), K("Space", "space", w_6_25u),
    K("Alt", "rightalt", w_1_25u), K("Super", "rightmeta", w_1_25u),
    K("Menu", "menu", w_1_25u), K("Ctrl", "rightctrl", w_1_25u) >>

----------------------------------------------------------------------------
\* Navigation and arrow clusters (lines 112-140).

\* Variant: the right edge of F12 (735 + 50, the first figure of the comment at
\* line 113) taken as the maximum.
main_block_max_x_f12 == 7350 + 500

main_block_max_x == 8150
nav_cluster_start_x == main_block_max_x + s + extra_gap

\* One add_key call of the clusters: its arguments other than width and height.
Call(name, left, top, keycode) == [name |-> name, left |-> left, top |-> top, keycode |-> keycode]

nav_cluster_calls == <<
    Call("Print Screen", nav_cluster_start_x, top_fn_row, "printscreen"),
    Call("Scroll Lock", nav_cluster_start_x + w_1u + s, top_fn_row, "scrolllock"),
    Call("Pause", nav_cluster_start_x + (w_1u + s) * 2, top_fn_row, "pause"),
    Call("Ins", nav_cluster_start_x, top_num_row, "insert"),
    Call("Home", nav_cluster_start_x + w_1u + s, top_num_row, "home"),
    Call("PgUp", nav_cluster_start_x + (w_1u + s) * 2, top_num_row, "pageup"),
    Call("Del", nav_cluster_start_x, top_qwerty_row, "delete"),
    Call("End", nav_cluster_start_x + w_1u + s, top_qwerty_row, "end"),
    Call("PgDn", nav_cluster_start_x + (w_1u + s) * 2, top_qwerty_row, "pagedown") >>

arrow_up_x == nav_cluster_start_x + w_1u + s
arrow_bottom_y == top_bottom_row
\* Variant: Up raised by the key height only.
arrow_up_y_no_spacing == arrow_bottom_y - h_1u
arrow_up_y == arrow_bottom_y - h_1u - s

arrow_calls == <<
    Call("Up", arrow_up_x, arrow_up_y, "up"),
    Call("Left", nav_cluster_start_x, arrow_bottom_y, "left"),
    Call("Down", arrow_up_x, arrow_bottom_y, "down"),
    Call("Right", arrow_up_x + w_1u + s, arrow_bottom_y, "right") >>

----------------------------------------------------------------------------
\* The file keys.toml.  kind is "absent" (no such file), "old" (whatever an
\* earlier run or the user left there) or "new" (opened for writing by this
\* run: truncated, then holding the tables of the array "key" written so far).

Absent == [kind |-> "absent", data |-> <<>>]
Old == [kind |-> "old", data |-> <<>>]

\* toml_data = {"key": keys} (line 143).
toml_data == [key |-> keys]

success_message == "keys.toml generated successfully."

----------------------------------------------------------------------------
Init ==
    /\ keys = <<>>
    /\ current_x = 0
    /\ i = 0
    /\ pc = "fn_esc"
    /\ group = <<>>
    /\ file \in {Absent, Old}
    /\ file0 = file
    /\ stdout = <<>>
    /\ exit_status = -1

\* Lines 40-42: Esc, then the offset moves past it and the extra gap.
FnRowEsc ==
    /\ pc = "fn_esc"
    /\ keys' = add_key("Esc", current_x, top_fn_row, w_1u, h_1u, "esc")
    /\ group' = Append(group, "fn")
    /\ current_x' = current_x + w_1u + s + extra_gap
    /\ i' = 0
    /\ pc' = "fn_loop"
    /\ UNCHANGED <<file, file0, stdout, exit_status>>

\* Lines 44-49: one iteration of the loop over f_keys; when the loop is
\* exhausted, line 53 resets the offset for the number row.
FnRowLoop ==
    /\ pc = "fn_loop"
    /\ \/ /\ i < Len(f_keys)
          /\ keys' = add_key(f_keys[i + 1], current_x, top_fn_row, w_1u, h_1u,
                             lower(f_keys[i + 1]))
          /\ group' = Append(group, "fn")
          /\ current_x' = current_x + w_1u + s + (IF FnGapAfter(i) THEN extra_gap ELSE 0)
          /\ i' = i + 1
          /\ pc' = pc
       \/ /\ i = Len(f_keys)
          /\ current_x' = 0
          /\ i' = 0
          /\ pc' = "num_row"
          /\ UNCHANGED <<keys, group>>
    /\ UNCHANGED <<file, file0, stdout, exit_status>>

\* "current_x += width + s" (lines 62, 74, 86, 98, 110).
Advance(x, width) == x + width + s

\* The loop shared by the five table-driven rows: one iteration appends the
\* next triple at the running offset; after the last one the script moves on
\* (resetting current_x when another row follows).
RowLoop(row, row_keys, top, next) ==
    /\ pc = row
    /\ \/ /\ i < Len(row_keys)
          /\ keys' = add_key(row_keys[i + 1].name, current_x, top,
                             row_keys[i + 1].width, h_1u, row_keys[i + 1].keycode)
          /\ group' = Append(group, row)
          /\ current_x' = Advance(current_x, row_keys[i + 1].width)
          /\ i' = i + 1
          /\ pc' = pc
       \/ /\ i = Len(row_keys)
          /\ current_x' = IF next = "nav" THEN current_x ELSE 0
          /\ i' = 0
          /\ pc' = next
          /\ UNCHANGED <<keys, group>>
    /\ UNCHANGED <<file, file0, stdout, exit_status>>

NumRow == RowLoop("num_row", num_row_keys, top_num_row, "qwerty_row")
QwertyRow == RowLoop("qwerty_row", qwerty_row_keys, top_qwerty_row, "asdf_row")
AsdfRow == RowLoop("asdf_row", asdf_row_keys, top_asdf_row, "zxcv_row")
ZxcvRow == RowLoop("zxcv_row", zxcv_row_keys, top_zxcv_row, "bottom_row")
BottomRow == RowLoop("bottom_row", bottom_row_keys, top_bottom_row, "nav")

\* The straight-line add_key calls of a cluster, one per step.
ClusterCalls(here, calls, next) ==
    /\ pc = here
    /\ keys' = add_key(calls[i + 1].name, calls[i + 1].left, calls[i + 1].top,
                       w_1u, h_1u, calls[i + 1].keycode)
    /\ group' = Append(group, here)
    /\ i' = IF i + 1 = Len(calls) THEN 0 ELSE i + 1
    /\ pc' = IF i + 1 = Len(calls) THEN next ELSE pc
    /\ UNCHANGED <<current_x, file, file0, stdout, exit_status>>

NavCluster == ClusterCalls("nav", nav_cluster_calls, "arrow")
ArrowKeys == ClusterCalls("arrow", arrow_calls, "open")

\* An uncaught exception: the traceback goes to stderr, the interpreter exits 1.
Raise ==
    /\ pc' = "error"
    /\ exit_status' = 1

\* open("keys.toml", "w") (line 144): on success the file exists and is empty;
\* on failure (permission, invalid path) nothing on disk changes.
Open ==
    /\ pc = "open"
    /\ \/ /\ file' = [kind |-> "new", data |-> <<>>]
          /\ pc' = "dump"
          /\ UNCHANGED exit_status
       \/ /\ Raise
          /\ UNCHANGED file
    /\ UNCHANGED <<keys, current_x, i, group, file0, stdout>>

\* toml.dump(toml_data, f) (line 145): the text is formed in memory and handed
\* to f.write; it reaches the disk in one or more writes, each carrying some
\* further part of it (here: n further tables of the array).
DumpWrite ==
    /\ pc = "dump"
    /\ \E n \in 1..(Len(toml_data.key) - Len(file.data)) :
          file' = [file EXCEPT !.data =
                     file.data \o SubSeq(toml_data.key, Len(file.data) + 1, Len(file.data) + n)]
    /\ UNCHANGED <<keys, current_x, i, pc, group, file0, stdout, exit_status>>

\* Variant: the failure swallowed, the script falling through to the print.
DumpFail_swallowed ==
    /\ pc = "dump"
    /\ pc' = "print"
    /\ UNCHANGED <<keys, current_x, i, group, file, file0, stdout, exit_status>>

\* A write (or the flush at close) fails: disk full, I/O error.  The with
\* block closes the file and the exception propagates; what was written stays.
DumpFail ==
    /\ pc = "dump"
    /\ Raise
    /\ UNCHANGED <<keys, current_x, i, group, file, file0, stdout>>

\* Leaving the with block (line 145 -> 147) once everything is on disk.
Close ==
    /\ pc = "dump"
    /\ file.data = toml_data.key
    /\ pc' = "print"
    /\ UNCHANGED <<keys, current_x, i, group, file, file0, stdout, exit_status>>

\* print("keys.toml generated successfully.") (line 147), then normal exit.
PrintSuccess ==
    /\ pc = "print"
    /\ stdout' = Append(stdout, success_message)
    /\ pc' = "done"
    /\ exit_status' = 0
    /\ UNCHANGED <<keys, current_x, i, group, file, file0>>

Next ==
    \/ FnRowEsc
    \/ FnRowLoop
    \/ NumRow
    \/ QwertyRow
    \/ AsdfRow
    \/ ZxcvRow
    \/ BottomRow
    \/ NavCluster
    \/ ArrowKeys
    \/ Open
    \/ DumpWrite
    \/ DumpFail
    \/ Close
    \/ PrintSuccess

Spec == Init /\ [][Next]_vars

----------------------------------------------------------------------------
\* Vocabulary of the properties.

MainRows == {"fn", "num_row", "qwerty_row", "asdf_row", "zxcv_row", "bottom_row"}
Clusters == {"nav", "arrow"}

\* The build is over: every add_key call has run and the write step is next or under way.
Built == pc \in {"open", "dump", "print", "done", "error"}

\* Indices of the records a statement group appended.
Idx(g) == {k \in 1..Len(keys) : group[k] = g}
Count(g) == Cardinality(Idx(g))

\* Zero-based position of record k within its own group.
PosInGroup(k) == Cardinality({m \in 1..(k - 1) : group[m] = group[k]})

RightEdge(r) == r.left + r.width
BottomEdge(r) == r.top + r.height

\* The record with a given keycode (used only where it exists).
Rec(kc) == keys[CHOOSE k \in 1..Len(keys) : keys[k].keycode = kc]
Has(kc) == \E k \in 1..Len(keys) : keys[k].keycode = kc

MaxOf(S) == CHOOSE m \in S : \A x \in S : x <= m

Overlap(a, b) ==
    /\ a.left < RightEdge(b)
    /\ b.left < RightEdge(a)
    /\ a.top < BottomEdge(b)
    /\ b.top < BottomEdge(a)

----------------------------------------------------------------------------
\* C1 as stated: once the key list is built it holds 89 records: 15 of the
\* function row, 14 number, 14 qwerty, 13 home, 12 bottom-letter, 8 bottom,
\* 9 navigation, 4 arrow.
C1_Count89 ==
    Built =>
        /\ Len(keys) = 89
        /\ Count("fn") = 15
        /\ Count("num_row") = 14
        /\ Count("qwerty_row") = 14
        /\ Count("asdf_row") = 13
        /\ Count("zxcv_row") = 12
        /\ Count("bottom_row") = 8
        /\ Count("nav") = 9
        /\ Count("arrow") = 4

\* C1 amended: once the key list is built it holds 87 records: 13 of the
\* function row (Esc and F1..F12), 14 number, 14 qwerty, 13 home,
\* 12 bottom-letter, 8 bottom, 9 navigation, 4 arrow.
C1_Count87 ==
    Built =>
        /\ Len(keys) = 87
        /\ Count("fn") = 13
        /\ Count("num_row") = 14
        /\ Count("qwerty_row") = 14
        /\ Count("asdf_row") = 13
        /\ Count("zxcv_row") = 12
        /\ Count("bottom_row") = 8
        /\ Count("nav") = 9
        /\ Count("arrow") = 4

C1_Witness == pc = "open" /\ Len(keys) = 87 /\ Count("fn") = 13

\* C2: in each main row the first record has left = 0 and each next record has
\* left = previous left + previous width + 5.0, plus 25.0 exactly after Esc,
\* F4 and F8 of the function row; so F1 is at 80.0 and left strictly increases
\* along every row.  (Holds of every prefix of the list, hence of the result.)
C2_RowMonotonic ==
    \A k \in 1..Len(keys) :
        group[k] \in MainRows =>
            /\ (k = 1 \/ group[k - 1] # group[k]) => (keys[k].left = 0)
            /\ (k < Len(keys) /\ group[k + 1] = group[k]) =>
                  /\ keys[k + 1].left =
                        keys[k].left + keys[k].width + 50
                        + (IF group[k] = "fn" /\ keys[k].keycode \in {"esc", "f4", "f8"}
                           THEN 250 ELSE 0)
                  /\ keys[k + 1].left > keys[k].left
            /\ (keys[k].keycode = "f1") => (keys[k].left = 800)

C2_Witness ==
    /\ pc = "open"
    /\ Has("f1") /\ Has("f5") /\ Has("f9") /\ Has("rightctrl")
    /\ Rec("f5").left = Rec("f4").left + 800
    /\ Rec("f9").left = Rec("f8").left + 800

\* C3: the nine navigation records form a 3x3 grid of 50.0 x 50.0 keys with
\* origin x = 845.0: the record of cluster row r, column c has left =
\* 845.0 + 55.0 * c and the top of the function / number / qwerty row, in the
\* order Print Screen, Scroll Lock, Pause; Ins, Home, PgUp; Del, End, PgDn.
C3_NavGrid ==
    /\ \A k \in Idx("nav") :
          LET j == PosInGroup(k)
              r == j \div 3
              c == j % 3
          IN  /\ j < 9
              /\ keys[k].left = 8450 + 550 * c
              /\ keys[k].top = <<top_fn_row, top_num_row, top_qwerty_row>>[r + 1]
              /\ keys[k].top = 550 * r
              /\ keys[k].width = 500
              /\ keys[k].height = 500
              /\ keys[k].name = <<"Print Screen", "Scroll Lock", "Pause",
                                  "Ins", "Home", "PgUp",
                                  "Del", "End", "PgDn">>[j + 1]
    /\ Built => Count("nav") = 9

C3_Witness ==
    /\ pc = "arrow"
    /\ Count("nav") = 9
    /\ Has("pagedown")
    /\ Rec("pagedown").left = 9550
    /\ Rec("pagedown").top = 1100

\* C4: the arrow records form an inverted T on the navigation columns: Up and
\* Down at the middle column x, Left at the left column x, Right at the right
\* column x; Left, Down, Right on the bottom row's top; Up at the bottom row's
\* top - 55.0, with keycode "up".
C4_ArrowT ==
    Built =>
        /\ {keys[k].keycode : k \in Idx("arrow")} = {"up", "left", "down", "right"}
        /\ {keys[k].name : k \in Idx("arrow") \cap {m \in 1..Len(keys) : keys[m].keycode = "up"}}
              = {"Up"}
        /\ Rec("up").left = Rec("home").left
        /\ Rec("down").left = Rec("home").left
        /\ Rec("left").left = Rec("insert").left
        /\ Rec("right").left = Rec("pageup").left
        /\ Rec("left").top = Rec("space").top
        /\ Rec("down").top = Rec("space").top
        /\ Rec("right").top = Rec("space").top
        /\ Rec("space").top = top_bottom_row
        /\ Rec("up").top = Rec("space").top - 500 - 50
        /\ Rec("up").top = Rec("space").top - 550

C4_Witness ==
    /\ pc = "open"
    /\ Count("arrow") = 4
    /\ Has("up")
    /\ Rec("up").left = 9000
    /\ Rec("up").top = 2200

\* C5: after a failed run keys.toml is either as it was before the run (or
\* still absent) or holds the complete serialization of all records; no
\* partial file remains.
C5_NoPartialFile ==
    (pc = "error") => (file = file0 \/ (file.kind = "new" /\ file.data = keys))

\* C6: the steps are ordered build -> write -> report.  Nothing touches the
\* file, prints or exits before the list is complete; the list does not change
\* once the write step is reached; the success message is printed only with the
\* complete file on disk and exit status 0; a failed write ends the run with
\* status 1, no message and no second attempt.
C6_BuildWriteReport ==
    /\ [](~Built => (file = file0 /\ stdout = <<>> /\ exit_status = -1))
    /\ [](Built =>
            /\ Count("fn") = 1 + Len(f_keys)
            /\ Count("num_row") = Len(num_row_keys)
            /\ Count("qwerty_row") = Len(qwerty_row_keys)
            /\ Count("asdf_row") = Len(asdf_row_keys)
            /\ Count("zxcv_row") = Len(zxcv_row_keys)
            /\ Count("bottom_row") = Len(bottom_row_keys)
            /\ Count("nav") = Len(nav_cluster_calls)
            /\ Count("arrow") = Len(arrow_calls))
    /\ [](stdout # <<>> =>
            /\ stdout = <<success_message>>
            /\ pc = "done"
            /\ exit_status = 0
            /\ file.kind = "new"
            /\ file.data = keys)
    /\ [](pc = "error" => (exit_status = 1 /\ stdout = <<>>))
    /\ [](exit_status = 1 => pc = "error")
    /\ [][ /\ Built => keys' = keys
           /\ pc' = "open" => pc = "arrow"
           /\ pc = "error" => (pc' = "error" /\ file' = file /\ stdout' = stdout)
         ]_vars

C6_Witness ==
    /\ pc = "done"
    /\ stdout = <<success_message>>
    /\ file.kind = "new"
    /\ Len(file.data) = Len(keys)
    /\ Len(keys) > 0
    /\ exit_status = 0

\* C7: the tops of the six main rows are 0, 55, 110, 165, 220, 275: the
\* function row's is 0 and each next is the previous plus 55.0; every record of
\* a main row carries its row's top and height 50.0.
C7_RowTops ==
    /\ top_fn_row = 0
    /\ top_num_row = top_fn_row + 550
    /\ top_qwerty_row = top_num_row + 550
    /\ top_asdf_row = top_qwerty_row + 550
    /\ top_zxcv_row = top_asdf_row + 550
    /\ top_bottom_row = top_zxcv_row + 550
    /\ \A k \in 1..Len(keys) :
          group[k] \in MainRows =>
              /\ keys[k].height = 500
              /\ keys[k].top =
                    CASE group[k] = "fn" -> 0
                      [] group[k] = "num_row" -> 550
                      [] group[k] = "qwerty_row" -> 1100
                      [] group[k] = "asdf_row" -> 1650
                      [] group[k] = "zxcv_row" -> 2200
                      [] group[k] = "bottom_row" -> 2750

C7_Witness ==
    /\ pc = "nav"
    /\ \A g \in MainRows : Count(g) > 0
    /\ Has("rightctrl")
    /\ Rec("rightctrl").top = 2750

\* C8: keycodes are unique over the whole list, although the display names
\* Shift, Ctrl, Alt and Super each occur twice.
C8_KeycodesUnique ==
    /\ \A a, b \in 1..Len(keys) : (a # b) => (keys[a].keycode # keys[b].keycode)
    /\ Built =>
          \A n \in {"Shift", "Ctrl", "Alt", "Super"} :
              Cardinality({k \in 1..Len(keys) : keys[k].name = n}) = 2

C8_Witness ==
    /\ pc = "open"
    /\ Cardinality({keys[k].keycode : k \in 1..Len(keys)}) = Len(keys)
    /\ Has("leftshift") /\ Has("rightshift")
    /\ Rec("leftshift").name = Rec("rightshift").name

\* C9: the hardcoded 815.0 is the maximum right edge (left + width) over the
\* records of the six main rows: it is the maximum of the Backspace, Enter and
\* right-Shift right edges, no main-row record passes it, and the maximum over
\* the last four main rows alone is 815.0 too.
C9_MainBlockMax ==
    Built =>
        LET all == {RightEdge(keys[k]) : k \in {m \in 1..Len(keys) : group[m] \in MainRows}}
            last4 == {RightEdge(keys[k]) :
                        k \in {m \in 1..Len(keys) :
                                 group[m] \in {"qwerty_row", "asdf_row", "zxcv_row", "bottom_row"}}}
            three == {RightEdge(Rec("backspace")), RightEdge(Rec("enter")),
                      RightEdge(Rec("rightshift"))}
        IN  /\ main_block_max_x = 8150
            /\ MaxOf(all) = 8150
            /\ MaxOf(three) = 8150
            /\ MaxOf(last4) = 8150
            /\ \A e \in all : e <= main_block_max_x

C9_Witness ==
    /\ pc = "open"
    /\ Has("backspace") /\ Has("backslash") /\ Has("enter") /\ Has("rightshift")
    /\ RightEdge(Rec("backspace")) = 8150
    /\ RightEdge(Rec("backslash")) = 8150
    /\ RightEdge(Rec("enter")) = 8100
    /\ RightEdge(Rec("rightshift")) = 8050

\* C10: no two distinct records overlap as rectangles, and every navigation or
\* arrow record (the Up arrow, on the bottom-letter row's top, included) lies
\* entirely to the right of every main-row record.
C10_NoOverlap ==
    /\ \A a, b \in 1..Len(keys) : (a # b) => ~Overlap(keys[a], keys[b])
    /\ \A a, b \in 1..Len(keys) :
          (group[a] \in MainRows /\ group[b] \in Clusters) =>
              RightEdge(keys[a]) <= keys[b].left

C10_Witness ==
    /\ pc = "open"
    /\ Has("up") /\ Has("slash")
    /\ Rec("up").top = Rec("slash").top
    /\ RightEdge(Rec("rightshift")) <= Rec("up").left

====
